---- MODULE Spec2Model ----
(***************************************************************************)
(* A model of the squashfs reader: the regular-file stream (fileReader),   *)
(* the opening of an archive (NewSquashfsReader), path lookup (FileFS),    *)
(* directory listing, File.WriteTo, symlink chasing, the extraction of a  *)
(* directory, the life of a File handle, two handles of one file, and the  *)
(* decoders of directory listings, of the id table and of inodes.          *)
(***************************************************************************)
EXTENDS Integers, Sequences, FiniteSets, TLC

VARIABLES
    file,     \* the regular-file inode the two readers below were built from
    fr,       \* the fileReader that is read with Read
    out,      \* the bytes the Read calls on fr have delivered so far
    last,     \* the last Read call on fr: its buffer size, cursor before, result
    fw,       \* the fileReader that is drained with WriteTo
    sink,     \* the bytes WriteTo has written to its io.Writer
    wret,     \* what WriteTo returned
    arch,     \* the archive handed to NewSquashfsReader
    impl,     \* which version of NewSquashfsReader runs
    pc,       \* the position of NewSquashfsReader in its body
    rdr,      \* the Reader under construction
    steps,    \* the steps NewSquashfsReader has performed, in order
    ret,      \* what NewSquashfsReader returned
    dirf,     \* a directory File of part_001 and the ReadDir calls made on it
    wt,       \* a File and the progress of the WriteTo call made on it
    chase,    \* the progress of a GetSymlinkFileRecursive call
    ext,      \* the extraction of a directory: its goroutines and its parent
    tree,     \* the directory tree of the archive
    fsimpl,   \* which of the two FileFS implementations is used
    pathname, \* the path handed to FileFS.Open and FileFS.Sub
    opened,   \* what FileFS.Open returned
    subbed,   \* what FileFS.Sub returned
    hnd,      \* a File handle: how it was opened and the calls made on it
    two,      \* two handles of one regular file and the bytes each delivered
    dirb,     \* the bytes handed to directory.NewDirectory and its result
    idt,      \* the decoding of the id table in NewSquashfsReader
    pin       \* the inode header handed to inode.ProcessInode and its result

vars ==
    <<file, fr, out, last, fw, sink, wret, arch, impl, pc, rdr, steps, ret,
      tree, fsimpl, pathname, opened, subbed, dirf, wt, chase, ext,
      hnd, two, dirb, idt, pin>>

readVars == <<file, fr, out, last, fw, sink, wret>>
openVars == <<arch, impl, pc, rdr, steps, ret>>
fsVars == <<tree, fsimpl, pathname, opened, subbed>>
decVars == <<hnd, two, dirb, idt, pin>>
walkVars == <<fsVars, dirf, wt, chase, ext>>
treeVars == <<walkVars, decVars>>

\* all variables but those of the stream, of FileFS, of the directory File
notStream == <<openVars, fsVars, dirf, chase, ext, decVars>>
notFS == <<readVars, openVars, dirf, wt, chase, ext, decVars>>
notDir == <<readVars, openVars, fsVars, wt, chase, ext, decVars>>
notChase == <<readVars, openVars, fsVars, dirf, wt, ext, decVars>>
notExtract == <<readVars, openVars, fsVars, dirf, wt, chase, decVars>>

(***************************************************************************)
(* Bounds of the model.                                                    *)
(***************************************************************************)
\* the block size of the archive the file lives in, scaled down
BlockSize == 11
\* the largest number of data blocks of a file
MaxBlocks == 1
\* the largest buffer handed to Read
MaxBuf == 23
\* the largest of the small buffers handed to Read
MaxSmallBuf == 3
\* Read is not called again once this many bytes beyond the file's size came out
MaxExtra == 2
\* the largest offset of a file's tail inside its fragment block
MaxFragOffset == 1

\* the buffer sizes Read is called with: small ones, about a block, a whole file
BufSizes == (1..MaxSmallBuf) \cup {BlockSize, BlockSize + 1, MaxBuf}

\* how many more bytes the io.Writer handed to WriteTo takes before it fails
SinkRooms == {0, 1, BlockSize, BlockSize + 1, (MaxBlocks + 1) * BlockSize}

Min(a, b) == IF a < b THEN a ELSE b

Nil == "nil"
EOF == "io.EOF"
ErrShortWrite == "io.ErrShortWrite"

IsPrefix(s, t) == Len(s) <= Len(t) /\ SubSeq(t, 1, Len(s)) = s

(***************************************************************************)
(* Regular-file inodes.  The content of the archive: data byte i of a file *)
(* is i, byte j of the decompressed fragment block is 100 + j.             *)
(***************************************************************************)
\* inode.File / inode.ExtFile as mksquashfs writes them: a file that is only
\* a fragment (or empty) has BlockStart 0, a file with data blocks has not
Inodes ==
    {[Size |-> s, BlockStart |-> bs, Fragmented |-> fg, FragmentOffset |-> fo] :
        s \in 0..((MaxBlocks + 1) * BlockSize - 1), bs \in {0, 96},
        fg \in BOOLEAN, fo \in 0..MaxFragOffset}

BlockCount(in) ==
    IF in.Fragmented THEN in.Size \div BlockSize
    ELSE (in.Size + BlockSize - 1) \div BlockSize

WellFormed(in) ==
    /\ (in.BlockStart = 0) <=> (BlockCount(in) = 0)
    /\ in.Fragmented => in.Size % BlockSize > 0
    /\ ~in.Fragmented => in.FragmentOffset = 0

\* the bytes of the file held in its data blocks
DataBytes(in) ==
    [i \in 1..(IF in.Fragmented THEN BlockCount(in) * BlockSize ELSE in.Size) |-> i]

\* the decompressed payload of the fragment block
FragmentBlock == [j \in 1..(MaxFragOffset + BlockSize) |-> 100 + j]

\* Reader.getFragmentDataFromInode: the slice of the fragment block that is
\* the file's tail
getFragmentDataFromInode(in) ==
    SubSeq(FragmentBlock, in.FragmentOffset + 1,
           in.FragmentOffset + (in.Size - BlockCount(in) * BlockSize))

\* the bytes of the file, in file order
FileBytes(in) ==
    DataBytes(in) \o (IF in.Fragmented THEN getFragmentDataFromInode(in) ELSE <<>>)

(***************************************************************************)
(* dataReader: the stream of the data blocks.                              *)
(***************************************************************************)
newDataReaderFromInode(in) == [bytes |-> DataBytes(in), pos |-> 0]

\* dataReader.Read with a buffer of plen > 0 bytes.  When fewer than plen
\* bytes are left, io.Reader lets the reader report io.EOF with the last
\* bytes (eager) or with the next call.
dataRead(d, plen, eager) ==
    LET avail == Len(d.bytes) - d.pos
        n     == Min(plen, avail)
    IN  [d     |-> [d EXCEPT !.pos = d.pos + n],
         n     |-> n,
         bytes |-> SubSeq(d.bytes, d.pos + 1, d.pos + n),
         err   |-> IF avail = 0 \/ (plen > avail /\ eager) THEN EOF ELSE Nil]

\* io.Writer.Write on a sink that takes at most room more bytes
sinkWrite(bytes, room) ==
    LET n == Min(Len(bytes), room)
    IN  [n |-> n, bytes |-> SubSeq(bytes, 1, n),
         err |-> IF n < Len(bytes) THEN ErrShortWrite ELSE Nil]

\* dataReader.WriteTo: the rest of the data blocks to the sink
dataWriteTo(d, room) ==
    sinkWrite(SubSeq(d.bytes, d.pos + 1, Len(d.bytes)), room)

(***************************************************************************)
(* fileReader.                                                             *)
(***************************************************************************)
newFileReader(in) ==
    [fragged      |-> in.Fragmented,
     fragOnly     |-> in.BlockStart = 0,
     FileSize     |-> in.Size,
     fragmentData |-> IF in.Fragmented THEN getFragmentDataFromInode(in) ELSE <<>>,
     read         |-> 0,
     data         |-> IF in.BlockStart = 0 THEN Nil ELSE newDataReaderFromInode(in)]

\* bytes.NewBuffer(b).Read(p) with len(p) = plen
bufferRead(b, plen) ==
    IF Len(b) = 0
    THEN [n |-> 0, bytes |-> <<>>, err |-> IF plen = 0 THEN Nil ELSE EOF]
    ELSE [n |-> Min(plen, Len(b)), bytes |-> SubSeq(b, 1, Min(plen, Len(b))),
          err |-> Nil]

\* the fragment-only branch of Read with the cursor left where it was
fragOnlyReadNoAdvance(f, plen) ==
    LET r == bufferRead(SubSeq(f.fragmentData, f.read + 1, Len(f.fragmentData)), plen)
    IN  [f |-> f, n |-> r.n, bytes |-> r.bytes, err |-> r.err]

\* fileReader.Read, fragment-only branch
fragOnlyRead(f, plen) ==
    LET r == bufferRead(SubSeq(f.fragmentData, f.read + 1, Len(f.fragmentData)), plen)
    IN  [f |-> [f EXCEPT !.read = f.read + r.n],
         n |-> r.n, bytes |-> r.bytes, err |-> r.err]

\* fileReader.Read, data-block branch
blockRead(f, plen, eager) ==
    LET d == dataRead(f.data, plen, eager)
        g == bufferRead(f.fragmentData, plen - d.n)
        f2 == [f EXCEPT !.data = d.d]
    IN  IF f.fragged /\ d.err = EOF
        THEN [f |-> f2, n |-> d.n + g.n, bytes |-> d.bytes \o g.bytes, err |-> g.err]
        ELSE [f |-> f2, n |-> d.n, bytes |-> d.bytes, err |-> d.err]

\* fileReader.Read(p) with len(p) = plen
fileReaderRead(f, plen, eager) ==
    IF f.fragOnly THEN fragOnlyRead(f, plen) ELSE blockRead(f, plen, eager)

\* fileReader.WriteTo(w), w taking at most room bytes
fileReaderWriteTo(f, room) ==
    IF f.fragOnly
    THEN LET w == sinkWrite(f.fragmentData, room)
         IN  [n |-> w.n, bytes |-> w.bytes, err |-> w.err]
    ELSE LET d == dataWriteTo(f.data, room)
             w == sinkWrite(f.fragmentData, room - d.n)
         IN  IF ~f.fragged \/ d.err # Nil
             THEN [n |-> d.n, bytes |-> d.bytes, err |-> d.err]
             ELSE [n |-> w.n + d.n, bytes |-> d.bytes \o w.bytes, err |-> w.err]

(***************************************************************************)
(* The archive handed to NewSquashfsReader.                                *)
(***************************************************************************)
magic == 1936814952    \* 0x73717368

\* the compression-type tags of the superblock
GzipCompression == 1
LzmaCompression == 2
LzoCompression == 3
XzCompression == 4
Lz4Compression == 5
ZstdCompression == 6

errNoMagic == "Magic number doesn't match. Either isn't a squashfs or corrupted"
errBlockLog == "BlockSize and BlockLog doesn't match. The archive is probably corrupt"
errIncompatibleCompression == "Compression type unsupported"
errXzFilters == "XZ compression options has filters. These are not yet supported"
ErrOptions == "Possibly incompatible compressor options"
ErrUnexpectedEOF == "io.ErrUnexpectedEOF"

\* the two versions of NewSquashfsReader in the source
Impls == {"reader.go", "part_000"}

\* (BlockSize, BlockLog) of the superblocks tried: agreeing and disagreeing
\* pairs, powers of two and not, inside and outside 4 KiB .. 1 MiB; every
\* BlockSize is above 0
BlockFields ==
    {<<4096, 12>>, <<4096, 13>>, <<4097, 12>>, <<8191, 12>>, <<8191, 13>>,
     <<131072, 17>>, <<131072, 16>>, <<1048576, 20>>, <<2048, 11>>,
     <<2097152, 21>>, <<1, 0>>, <<1, 12>>}

\* the compressor-options blocks tried: the fields the gzip and the XZ
\* readers take from the bytes after the superblock
OptionBlocks ==
    {[window |-> 15, strategies |-> 0, filters |-> 0],
     [window |-> 15, strategies |-> 1, filters |-> 0],
     [window |-> 9,  strategies |-> 0, filters |-> 0],
     [window |-> 15, strategies |-> 2, filters |-> 1]}

\* the part of the archive that is cut short or corrupt, if any
Damage == {"none", "superblock", "options", "fragTable", "idTable",
           "rootInode", "rootFile"}

RootTypes == {"dir", "file", "symlink"}

Archives ==
    {[Magic |-> m, BlockSize |-> b[1], BlockLog |-> b[2], CompressionType |-> c,
      compressorOptions |-> o, options |-> ob, damage |-> d, rootType |-> t] :
        m \in {magic, 1752395123}, b \in BlockFields, c \in 0..7,
        o \in BOOLEAN, ob \in OptionBlocks, d \in Damage, t \in RootTypes}

NoArchive ==
    [Magic |-> 0, BlockSize |-> 0, BlockLog |-> 0, CompressionType |-> 0,
     compressorOptions |-> FALSE,
     options |-> [window |-> 0, strategies |-> 0, filters |-> 0],
     damage |-> "none", rootType |-> "dir"]

\* var rdr Reader, and NewSquashfsReader not yet returned
NoReader ==
    [decompressor |-> Nil, hasOptions |-> FALSE, fragOffsets |-> FALSE,
     idTable |-> FALSE, root |-> Nil, entries |-> FALSE]
NotOpened == [returned |-> FALSE, rdr |-> FALSE, err |-> Nil]

\* no Read call yet, and WriteTo not yet returned
NoCall == [plen |-> 0, pre |-> 0, n |-> 0, err |-> Nil]
NotReturned == [done |-> FALSE, n |-> 0, err |-> Nil]

\* no file: the nil *File
NilFile == [node |-> 0, parent |-> 0]

\* FileFS.Open and FileFS.Sub not yet returned
NotLooked == [done |-> FALSE, file |-> NilFile, err |-> Nil, levels |-> 0]
NotSubbed == [done |-> FALSE, fs |-> NilFile, isFS |-> FALSE, err |-> Nil]

\* no FileFS in use
FSIdle ==
    /\ tree = <<>>
    /\ fsimpl = "part_003"
    /\ pathname = <<>>
    /\ opened = NotLooked
    /\ subbed = NotSubbed

\* no directory File in use
DirIdle == dirf = [n |-> 0, dirsRead |-> 0, calls |-> <<>>]

\* the directory-tree part of the state while the stream or the opening runs
\* no File.WriteTo call
WriteIdle == wt = [impl |-> "FileCore", closed |-> FALSE, depth |-> 0, crashed |-> FALSE]

\* no GetSymlinkFileRecursive call
ChaseIdle == chase = [pc |-> "idle", f |-> NilFile, sym |-> NilFile, ret |-> NilFile]

\* no extraction
NoExtract ==
    [impl |-> "File", children |-> <<>>, g |-> <<>>, parent |-> "idle",
     got |-> 0, errs |-> <<>>, crashed |-> FALSE]

ExtractIdle == ext = NoExtract

\* no File handle
NoHandle ==
    [impl |-> "FileCore", kind |-> "file", fragged |-> FALSE, fragOnly |-> FALSE,
     damage |-> "none", pc |-> "idle", rdr |-> Nil, directory |-> Nil,
     openErr |-> Nil, calls |-> <<>>]

HandleIdle == hnd = NoHandle

\* no pair of handles
NoPair ==
    [in |-> [Size |-> 0, BlockStart |-> 0, Fragmented |-> FALSE, FragmentOffset |-> 0],
     heap |-> <<>>, h |-> <<>>, solo |-> <<>>, got |-> <<>>, alone |-> <<>>,
     errs |-> <<>>, turn |-> 0, switches |-> 0,
     tables |-> [super |-> 0, decompressor |-> Nil, fragOffsets |-> <<>>,
                 idTable |-> <<>>]]

PairIdle == two = NoPair

\* no listing handed to NewDirectory
NoListing == [bytes |-> <<>>, laid |-> <<>>, trailing |-> 0, done |-> FALSE,
              entries |-> <<>>, err |-> Nil]

ListingIdle == dirb = NoListing

\* no id table being decoded
NoIdTable == [impl |-> "reader.go", IDCount |-> 0, pc |-> "idle", blocks |-> 0,
              next |-> 0, unread |-> 0, idTable |-> <<>>, err |-> Nil]

IdTableIdle == idt = NoIdTable

\* no inode handed to ProcessInode
NoInode == [Type |-> Nil, cut |-> "none", pc |-> "idle", Info |-> Nil, err |-> Nil]

InodeIdle == pin = NoInode

DecIdle == HandleIdle /\ PairIdle /\ ListingIdle /\ IdTableIdle /\ InodeIdle

WalkIdle == FSIdle /\ DirIdle /\ WriteIdle /\ ChaseIdle /\ ExtractIdle

TreeIdle == WalkIdle /\ DecIdle

\* no NewSquashfsReader call
NoOpening ==
    /\ arch = NoArchive
    /\ impl = "reader.go"
    /\ pc = "idle"
    /\ rdr = NoReader
    /\ steps = <<>>
    /\ ret = NotOpened

\* the stream and the opening while another part of the program runs
OpenIdle ==
    /\ file = [Size |-> 0, BlockStart |-> 0, Fragmented |-> FALSE, FragmentOffset |-> 0]
    /\ fr = newFileReader(file)
    /\ fw = newFileReader(file)
    /\ out = <<>>
    /\ last = NoCall
    /\ sink = <<>>
    /\ wret = NotReturned
    /\ NoOpening

InitRead ==
    /\ file \in {in \in Inodes : WellFormed(in)}
    /\ fr = newFileReader(file)
    /\ fw = newFileReader(file)
    /\ out = <<>>
    /\ last = NoCall
    /\ sink = <<>>
    /\ wret = NotReturned
    /\ arch = NoArchive
    /\ impl = "reader.go"
    /\ pc = "idle"
    /\ rdr = NoReader
    /\ steps = <<>>
    /\ ret = NotOpened
    /\ TreeIdle

\* one call of fr.Read with a non-empty buffer; the caller reads until the
\* first error
Read ==
    /\ last.err = Nil
    /\ Len(out) < fr.FileSize + MaxExtra
    /\ \E plen \in BufSizes, eager \in BOOLEAN :
         LET r == fileReaderRead(fr, plen, eager)
         IN  /\ fr' = r.f
             /\ out' = out \o r.bytes
             /\ last' = [plen |-> plen, pre |-> Len(out), n |-> r.n, err |-> r.err]
    /\ UNCHANGED <<file, fw, sink, wret>>
    /\ UNCHANGED openVars
    /\ UNCHANGED treeVars

\* fw.WriteTo on the fresh reader
WriteTo ==
    /\ ~wret.done
    /\ \E room \in SinkRooms :
         LET r == fileReaderWriteTo(fw, room)
         IN  /\ sink' = r.bytes
             /\ wret' = [done |-> TRUE, n |-> r.n, err |-> r.err]
    /\ UNCHANGED <<file, fr, out, last, fw>>
    /\ UNCHANGED openVars
    /\ UNCHANGED treeVars

NextRead == Read

SpecRead == InitRead /\ [][NextRead]_vars

NextWrite == Read \/ WriteTo

SpecWrite == InitRead /\ [][NextWrite]_vars

(***************************************************************************)
(* NewSquashfsReader.                                                      *)
(***************************************************************************)
RECURSIVE Log2Floor(_)
Log2Floor(n) == IF n <= 1 THEN 0 ELSE 1 + Log2Floor(n \div 2)

RECURSIVE Pow2(_)
Pow2(k) == IF k = 0 THEN 1 ELSE 2 * Pow2(k - 1)

\* the magic check passing everything
magicUnchecked(a) == TRUE

\* rdr.super.Magic != magic, negated
magicMatches(a) == a.Magic = magic

\* rdr.super.BlockLog != uint16(math.Log2(float64(rdr.super.BlockSize))),
\* negated, for a BlockSize above 0: the conversion truncates the logarithm
blockLogMatches(a) == a.BlockLog = Log2Floor(a.BlockSize)

\* compression.NewGzipCompressorWithOptions
NewGzipCompressorWithOptions(ob) ==
    [HasCustomWindow |-> ob.window # 15, HasStrategies |-> ob.strategies \notin {0, 1}]

\* compression.NewXzCompressorWithOptions
NewXzCompressorWithOptions(ob) == [HasFilters |-> ob.filters # 0]

decompressorOk(name, unsupported) ==
    [err |-> Nil, decompressor |-> name, hasUnsupportedOptions |-> unsupported]
decompressorErr(e) ==
    [err |-> e, decompressor |-> Nil, hasUnsupportedOptions |-> FALSE]

\* case GzipCompression of the switch under the options flag
gzipWithOptions(a) ==
    IF a.damage = "options" THEN decompressorErr(ErrUnexpectedEOF)
    ELSE LET gzip == NewGzipCompressorWithOptions(a.options)
         IN  decompressorOk("gzip", gzip.HasCustomWindow \/ gzip.HasStrategies)

\* case XzCompression with the filters let through
xzWithOptionsFiltersKept(a) ==
    IF a.damage = "options" THEN decompressorErr(ErrUnexpectedEOF)
    ELSE decompressorOk("xz", FALSE)

\* case XzCompression of the switch under the options flag
xzWithOptions(a) ==
    IF a.damage = "options" THEN decompressorErr(ErrUnexpectedEOF)
    ELSE IF NewXzCompressorWithOptions(a.options).HasFilters
         THEN decompressorErr(errXzFilters)
         ELSE decompressorOk("xz", FALSE)

\* the switch on the compression type, with and without the options flag
selectDecompressor(a) ==
    IF a.compressorOptions
    THEN CASE a.CompressionType = GzipCompression -> gzipWithOptions(a)
           [] a.CompressionType = XzCompression -> xzWithOptions(a)
           [] a.CompressionType = Lz4Compression ->
                IF a.damage = "options" THEN decompressorErr(ErrUnexpectedEOF)
                ELSE decompressorOk("lz4", FALSE)
           [] a.CompressionType = ZstdCompression ->
                IF a.damage = "options" THEN decompressorErr(ErrUnexpectedEOF)
                ELSE decompressorOk("zstd", FALSE)
           [] OTHER -> decompressorErr(errIncompatibleCompression)
    ELSE CASE a.CompressionType = GzipCompression -> decompressorOk("gzip", FALSE)
           [] a.CompressionType = LzmaCompression -> decompressorOk("lzma", FALSE)
           [] a.CompressionType = XzCompression -> decompressorOk("xz", FALSE)
           [] a.CompressionType = Lz4Compression -> decompressorOk("lz4", FALSE)
           [] a.CompressionType = ZstdCompression -> decompressorOk("zstd", FALSE)
           [] OTHER -> decompressorErr(errIncompatibleCompression)

\* the Reader returned with a nil error whatever the options were
openResultNoWarning(hasUnsupportedOptions) ==
    [returned |-> TRUE, rdr |-> TRUE, err |-> Nil]

\* the two return statements at the end of NewSquashfsReader
openResult(hasUnsupportedOptions) ==
    [returned |-> TRUE, rdr |-> TRUE,
     err |-> IF hasUnsupportedOptions THEN ErrOptions ELSE Nil]

\* the error returned beside the Reader built so far
openFailsKeepsReader(e) == [returned |-> TRUE, rdr |-> TRUE, err |-> e]

\* return nil, err
openFails(e) == [returned |-> TRUE, rdr |-> FALSE, err |-> e]

InitOpen ==
    /\ arch \in Archives
    /\ impl \in Impls
    /\ pc = "superblock"
    /\ rdr = NoReader
    /\ steps = <<>>
    /\ ret = NotOpened
    /\ file = [Size |-> 0, BlockStart |-> 0, Fragmented |-> FALSE, FragmentOffset |-> 0]
    /\ fr = newFileReader(file)
    /\ fw = newFileReader(file)
    /\ out = <<>>
    /\ last = NoCall
    /\ sink = <<>>
    /\ wret = NotReturned
    /\ TreeIdle

\* a step of NewSquashfsReader that fails with e, or goes on to next
Step(name, e, next) ==
    /\ steps' = Append(steps, name)
    /\ IF e # Nil
       THEN pc' = "done" /\ ret' = openFails(e)
       ELSE pc' = next /\ ret' = ret

\* binary.Read of the superblock
ReadSuperblock ==
    /\ pc = "superblock"
    /\ Step("superblock",
            IF arch.damage = "superblock" THEN ErrUnexpectedEOF ELSE Nil, "magic")
    /\ UNCHANGED <<arch, impl, rdr>>
    /\ UNCHANGED readVars
    /\ UNCHANGED treeVars

CheckMagic ==
    /\ pc = "magic"
    /\ Step("magic", IF magicMatches(arch) THEN Nil ELSE errNoMagic, "blockLog")
    /\ UNCHANGED <<arch, impl, rdr>>
    /\ UNCHANGED readVars
    /\ UNCHANGED treeVars

CheckBlockLog ==
    /\ pc = "blockLog"
    /\ Step("blockLog", IF blockLogMatches(arch) THEN Nil ELSE errBlockLog,
            "decompressor")
    /\ UNCHANGED <<arch, impl, rdr>>
    /\ UNCHANGED readVars
    /\ UNCHANGED treeVars

SelectDecompressor ==
    /\ pc = "decompressor"
    /\ LET d == selectDecompressor(arch)
       IN  /\ Step("decompressor", d.err, "fragTable")
           /\ rdr' = [rdr EXCEPT !.decompressor = d.decompressor,
                                 !.hasOptions = d.hasUnsupportedOptions]
    /\ UNCHANGED <<arch, impl>>
    /\ UNCHANGED readVars
    /\ UNCHANGED treeVars

\* the fragment super-table
ReadFragTable ==
    /\ pc = "fragTable"
    /\ Step("fragTable",
            IF arch.damage = "fragTable" THEN ErrUnexpectedEOF ELSE Nil, "idTable")
    /\ rdr' = [rdr EXCEPT !.fragOffsets = arch.damage # "fragTable"]
    /\ UNCHANGED <<arch, impl>>
    /\ UNCHANGED readVars
    /\ UNCHANGED treeVars

\* the id table
ReadIdTable ==
    /\ pc = "idTable"
    /\ Step("idTable",
            IF arch.damage = "idTable" THEN ErrUnexpectedEOF ELSE Nil, "rootInode")
    /\ rdr' = [rdr EXCEPT !.idTable = arch.damage # "idTable"]
    /\ UNCHANGED <<arch, impl>>
    /\ UNCHANGED readVars
    /\ UNCHANGED treeVars

\* newMetadataReaderFromInodeRef and inode.ProcessInode of the root inode
ReadRootInode ==
    /\ pc = "rootInode"
    /\ Step("rootInode",
            IF arch.damage = "rootInode" THEN ErrUnexpectedEOF ELSE Nil, "rootFile")
    /\ UNCHANGED <<arch, impl, rdr>>
    /\ UNCHANGED readVars
    /\ UNCHANGED treeVars

\* Reader.newFileFromInode: a directory's entries and a regular file's
\* reader are built here
newFileFromInodeErr(a) ==
    IF a.damage = "rootFile" /\ a.rootType \in {"dir", "file"}
    THEN ErrUnexpectedEOF ELSE Nil

\* reader.go: newFileFromInode and AsFS; part_000: the root File is filled in
RootFile ==
    /\ pc = "rootFile"
    /\ IF impl = "reader.go"
       THEN /\ Step("rootFile", newFileFromInodeErr(arch), "return")
            /\ rdr' = IF newFileFromInodeErr(arch) # Nil THEN rdr
                      ELSE [rdr EXCEPT !.root = "FileFS",
                                       !.entries = (arch.rootType = "dir")]
       ELSE /\ Step("rootFile", Nil, "return")
            /\ rdr' = [rdr EXCEPT !.root = "File"]
    /\ UNCHANGED <<arch, impl>>
    /\ UNCHANGED readVars
    /\ UNCHANGED treeVars

Return ==
    /\ pc = "return"
    /\ steps' = Append(steps, "return")
    /\ pc' = "done"
    /\ ret' = openResult(rdr.hasOptions)
    /\ UNCHANGED <<arch, impl, rdr>>
    /\ UNCHANGED readVars
    /\ UNCHANGED treeVars

NextOpen ==
    \/ ReadSuperblock
    \/ CheckMagic
    \/ CheckBlockLog
    \/ SelectDecompressor
    \/ ReadFragTable
    \/ ReadIdTable
    \/ ReadRootInode
    \/ RootFile
    \/ Return

SpecOpen == InitOpen /\ [][NextOpen]_vars

(***************************************************************************)
(* Paths.  A path is the sequence of its bytes; the operators below are    *)
(* the standard-library functions FileFS.Open calls, computed as Go        *)
(* computes them.                                                          *)
(***************************************************************************)
\* the longest path handed to FileFS.Open
MaxPathLen == 5

\* the bytes paths and entry names are made of; none of ? [ \ is among them
PathChars == {"a", "b", "c", ".", "/", "*"}

Paths == UNION {[1..n -> PathChars] : n \in 0..MaxPathLen}

Dot == <<".">>
DotDot == <<".", ".">>
Slash == <<"/">>

\* the position of the first and of the last "/" of s, 0 when there is none
FirstSlash(s) ==
    IF \E i \in 1..Len(s) : s[i] = "/"
    THEN CHOOSE i \in 1..Len(s) : s[i] = "/" /\ \A j \in 1..(i - 1) : s[j] # "/"
    ELSE 0

LastSlash(s) ==
    IF \E i \in 1..Len(s) : s[i] = "/"
    THEN CHOOSE i \in 1..Len(s) : s[i] = "/" /\ \A j \in (i + 1)..Len(s) : s[j] # "/"
    ELSE 0

\* strings.HasPrefix(s, prefix) and strings.TrimPrefix(s, prefix)
HasPrefix(s, prefix) ==
    Len(prefix) <= Len(s) /\ SubSeq(s, 1, Len(prefix)) = prefix

TrimPrefix(s, prefix) ==
    IF HasPrefix(s, prefix) THEN SubSeq(s, Len(prefix) + 1, Len(s)) ELSE s

\* strings.Split(s, "/")
RECURSIVE Split(_)
Split(s) ==
    IF FirstSlash(s) = 0
    THEN <<s>>
    ELSE <<SubSeq(s, 1, FirstSlash(s) - 1)>>
             \o Split(SubSeq(s, FirstSlash(s) + 1, Len(s)))

\* strings.Join(elems, "/")
RECURSIVE Join(_)
Join(elems) ==
    IF elems = <<>> THEN <<>>
    ELSE IF Len(elems) = 1 THEN elems[1]
    ELSE elems[1] \o Slash \o Join(Tail(elems))

\* fs.ValidPath(s): "." or slash-separated elements none of which is empty,
\* "." or ".."
ValidPath(s) ==
    \/ s = Dot
    \/ \A k \in 1..Len(Split(s)) : Split(s)[k] \notin {<<>>, Dot, DotDot}

\* the elements path.Clean keeps: empty and "." elements are dropped, ".."
\* removes the element before it, is dropped at the root of a rooted path
\* and is kept at the front of a relative one
RECURSIVE CleanElems(_, _, _)
CleanElems(elems, kept, rooted) ==
    IF elems = <<>> THEN kept
    ELSE LET e == Head(elems)
             k == IF e = <<>> \/ e = Dot THEN kept
                  ELSE IF e # DotDot THEN Append(kept, e)
                  ELSE IF kept # <<>> /\ kept[Len(kept)] # DotDot
                       THEN SubSeq(kept, 1, Len(kept) - 1)
                  ELSE IF rooted THEN kept
                  ELSE Append(kept, e)
         IN  CleanElems(Tail(elems), k, rooted)

\* path.Clean(s)
Clean(s) ==
    IF s = <<>> THEN Dot
    ELSE LET rooted == s[1] = "/"
             body == Join(CleanElems(Split(s), <<>>, rooted))
         IN  IF rooted THEN Slash \o body
             ELSE IF body = <<>> THEN Dot
             ELSE body

\* path.Dir(s): all but the last element of s, cleaned
Dir(s) == Clean(SubSeq(s, 1, LastSlash(s)))

\* s without its trailing slashes
RECURSIVE TrimSlashes(_)
TrimSlashes(s) ==
    IF s # <<>> /\ s[Len(s)] = "/"
    THEN TrimSlashes(SubSeq(s, 1, Len(s) - 1))
    ELSE s

\* path.Base(s): the last element of s
Base(s) ==
    IF s = <<>> THEN Dot
    ELSE LET t == TrimSlashes(s)
         IN  IF t = <<>> THEN Slash ELSE SubSeq(t, LastSlash(t) + 1, Len(t))

\* path.Match(pattern, s) for patterns over PathChars: "*" matches any run
\* of bytes other than "/", every other byte matches itself
RECURSIVE Match(_, _)
Match(pattern, s) ==
    IF pattern = <<>> THEN s = <<>>
    ELSE IF Head(pattern) = "*"
    THEN \E k \in 0..Len(s) :
            /\ \A j \in 1..k : s[j] # "/"
            /\ Match(Tail(pattern), SubSeq(s, k + 1, Len(s)))
    ELSE s # <<>> /\ Head(s) = Head(pattern) /\ Match(Tail(pattern), Tail(s))

(***************************************************************************)
(* The directory tree of an archive.  A node is an inode; a directory      *)
(* lists its entries in the order of the archive (sorted by name).  A File *)
(* is the node it stands for and the directory it was listed in (0: nil).  *)
(***************************************************************************)
DirNode(entries) == [kind |-> "dir", entries |-> entries, target |-> <<>>]
FileNode == [kind |-> "file", entries |-> <<>>, target |-> <<>>]
SymNode(target) == [kind |-> "symlink", entries |-> <<>>, target |-> target]
Entry(n, node) == [name |-> n, node |-> node]

\* the root directory as a File: the first node, listed in no directory
rootDir == [node |-> 1, parent |-> 0]

RootNode == rootDir.node

\* a (dir) { b (dir) { c (file) } }, b (file)
NestedTree ==
    <<DirNode(<<Entry(<<"a">>, 2), Entry(<<"b">>, 5)>>),
      DirNode(<<Entry(<<"b">>, 3)>>),
      DirNode(<<Entry(<<"c">>, 4)>>),
      FileNode,
      FileNode>>

\* * (file), a (dir) { c (file) }, ab (symlink to a), c (file)
StarTree ==
    <<DirNode(<<Entry(<<"*">>, 2), Entry(<<"a">>, 3), Entry(<<"a", "b">>, 4),
                Entry(<<"c">>, 6)>>),
      FileNode,
      DirNode(<<Entry(<<"c">>, 5)>>),
      SymNode(<<"a">>),
      FileNode,
      FileNode>>

\* an archive with nothing but its root directory
EmptyTree == <<DirNode(<<>>)>>

FSTrees == {NestedTree, StarTree, EmptyTree}

\* File.IsDir
IsDir(t, f) == t[f.node].kind = "dir"

fsErrInvalid == "fs.ErrInvalid"
fsErrNotExist == "fs.ErrNotExist"
errNotDirectory == "File is not a directory"
errReadDirNonDir == "ReadDir called on a non-directory"

\* what Open returns: a File and no error, or no File and an error; levels
\* counts the directories listed on the way
Found(f, levels) == [done |-> TRUE, file |-> f, err |-> Nil, levels |-> levels]
NotFound(e, levels) ==
    [done |-> TRUE, file |-> NilFile, err |-> e, levels |-> levels]

\* the position of the first entry the pattern matches, 0 when none does
FirstMatch(pattern, entries) ==
    IF \E i \in 1..Len(entries) : Match(pattern, entries[i].name)
    THEN CHOOSE i \in 1..Len(entries) :
            /\ Match(pattern, entries[i].name)
            /\ \A j \in 1..(i - 1) : ~Match(pattern, entries[j].name)
    ELSE 0

(***************************************************************************)
(* FileFS of part_003: it wraps a *File f.                                 *)
(***************************************************************************)
\* return f.f, nil: the File the FileFS wraps, unread
wrappedNil(f) == Found(NilFile, 0)

wrapped(f) == Found(f, 0)

\* FileFS.Open(s) on the FileFS of File f
RECURSIVE OpenFile(_, _, _)
OpenFile(t, f, s) ==
    IF s = <<>> THEN wrapped(f)
    ELSE IF ~ValidPath(s) THEN NotFound(fsErrInvalid, 0)
    ELSE LET cleaned ==
                 Clean(IF HasPrefix(s, Slash) THEN TrimPrefix(s, Slash) ELSE s)
             split == Split(cleaned)
             i == FirstMatch(split[1], t[f.node].entries)
             fil == [node |-> t[f.node].entries[i].node, parent |-> f.node]
         IN  IF cleaned = <<>> \/ cleaned = Dot THEN wrapped(f)
             ELSE IF HasPrefix(cleaned, <<".", ".", "/">>)
             THEN NotFound(fsErrInvalid, 0)
             ELSE IF ~IsDir(t, f) THEN NotFound(errReadDirNonDir, 0)
             ELSE IF i = 0 THEN NotFound(fsErrNotExist, 1)
             ELSE IF Len(split) = 1 THEN Found(fil, 1)
             ELSE IF IsDir(t, fil)
             THEN LET r == OpenFile(t, fil, Join(Tail(split)))
                  IN  [r EXCEPT !.levels = @ + 1]
             ELSE NotFound(fsErrNotExist, 1)

\* File.AsFS: a FileFS of the File, whatever its kind
FileAsFS(t, f) == [done |-> TRUE, fs |-> f, isFS |-> TRUE, err |-> Nil]

\* FileFS.Sub(s)
SubFile(t, f, s) ==
    LET o == OpenFile(t, f, s)
    IN  IF o.err # Nil
        THEN [done |-> TRUE, fs |-> NilFile, isFS |-> FALSE, err |-> o.err]
        ELSE FileAsFS(t, o.file)

(***************************************************************************)
(* FileFS of part_002: it wraps a *FileCore.  Its errors are *fs.PathError *)
(* values around fs.ErrInvalid and fs.ErrNotExist, and the bare            *)
(* errNotDirectory.                                                        *)
(***************************************************************************)
\* err.(*fs.PathError)
IsPathError(e) == e \in {fsErrInvalid, fsErrNotExist}

\* return f.AsFile(), nil
asFile(f) == Found(f, 0)

\* File.ReadDir(-1) of the File on a FileCore: all the entries, or
\* errNotDirectory
ReadDirAll(t, f) ==
    IF IsDir(t, f)
    THEN [entries |-> t[f.node].entries, err |-> Nil]
    ELSE [entries |-> <<>>, err |-> errNotDirectory]

RECURSIVE OpenCore(_, _, _)
RECURSIVE ReadDirCore(_, _, _)

\* FileFS.Open(s) on the FileFS of FileCore f
OpenCore(t, f, s) ==
    LET nm == TrimPrefix(Clean(s), Slash)
        d == ReadDirCore(t, f, Dir(nm))
        i == FirstMatch(Base(nm), d.entries)
    IN  IF nm = <<>> \/ nm = Dot THEN asFile(f)
        ELSE IF ~ValidPath(nm) THEN NotFound(fsErrInvalid, 0)
        ELSE IF d.err # Nil THEN NotFound(d.err, d.levels)
        ELSE IF i = 0 THEN NotFound(fsErrNotExist, d.levels)
        ELSE Found([node |-> d.entries[i].node, parent |-> 0], d.levels)

\* FileFS.ReadDir(s) on the FileFS of FileCore f
ReadDirCore(t, f, s) ==
    LET nm == TrimPrefix(Clean(s), Slash)
        o == OpenCore(t, f, nm)
        r == ReadDirAll(t, o.file)
    IN  IF nm = <<>> \/ nm = Dot
        THEN [entries |-> ReadDirAll(t, f).entries,
              err |-> ReadDirAll(t, f).err, levels |-> 1]
        ELSE IF ~ValidPath(nm)
        THEN [entries |-> <<>>, err |-> fsErrInvalid, levels |-> 0]
        ELSE IF o.err # Nil
        THEN [entries |-> <<>>, levels |-> o.levels,
              err |-> IF IsPathError(o.err) THEN o.err ELSE fsErrInvalid]
        ELSE [entries |-> r.entries, err |-> r.err, levels |-> o.levels + 1]

\* FileCore.AsFS: a FileFS of a directory, errNotDirectory otherwise
CoreAsFS(t, f) ==
    IF ~IsDir(t, f)
    THEN [done |-> TRUE, fs |-> NilFile, isFS |-> FALSE, err |-> errNotDirectory]
    ELSE [done |-> TRUE, fs |-> f, isFS |-> TRUE, err |-> Nil]

\* FileFS.Sub(s)
SubCore(t, f, s) ==
    LET o == OpenCore(t, f, s)
    IN  IF o.err # Nil
        THEN [done |-> TRUE, fs |-> NilFile, isFS |-> FALSE, err |-> o.err]
        ELSE CoreAsFS(t, o.file)

(***************************************************************************)
(* Opening a path on the FileFS of the root directory.                     *)
(***************************************************************************)
FSImpls == {"part_003", "part_002"}

FileFSOpen(i, t, s) ==
    IF i = "part_003" THEN OpenFile(t, rootDir, s) ELSE OpenCore(t, rootDir, s)

FileFSSub(i, t, s) ==
    IF i = "part_003" THEN SubFile(t, rootDir, s) ELSE SubCore(t, rootDir, s)

\* the client has a FileFS of the root directory of some archive, and a path
InitFS ==
    /\ tree \in FSTrees
    /\ fsimpl \in FSImpls
    /\ pathname \in Paths
    /\ opened = NotLooked
    /\ subbed = NotSubbed
    /\ OpenIdle
    /\ DirIdle
    /\ WriteIdle
    /\ ChaseIdle
    /\ ExtractIdle
    /\ DecIdle

\* FileFS.Open(pathname)
Open ==
    /\ ~opened.done
    /\ opened' = FileFSOpen(fsimpl, tree, pathname)
    /\ UNCHANGED <<tree, fsimpl, pathname, subbed>>
    /\ UNCHANGED notFS

\* FileFS.Sub(pathname)
Sub ==
    /\ ~subbed.done
    /\ subbed' = FileFSSub(fsimpl, tree, pathname)
    /\ UNCHANGED <<tree, fsimpl, pathname, opened>>
    /\ UNCHANGED notFS

NextFS == Open \/ Sub

SpecFS == InitFS /\ [][NextFS]_vars

(***************************************************************************)
(* File.ReadDir of part_001 on a directory File: entries are numbered      *)
(* 1..n, a call returns the entries beg+1..end of f.entries[beg:end].      *)
(***************************************************************************)
\* the largest number of entries of the directory
MaxEntries == 3
\* the largest number of ReadDir calls on one File
MaxCalls == 3

\* the arguments ReadDir is called with
ReadDirArgs == (0 - MaxEntries)..(MaxEntries + 1)

\* File.ReadDir(i) on a directory of n entries with f.dirsRead = dirsRead;
\* f.entries[beg:end] panics unless 0 <= beg <= end <= n
FileReadDir(n, dirsRead, i) ==
    LET beg == IF i >= 0 THEN 0 ELSE dirsRead
        eof == i < 0 /\ dirsRead + i > n
        end == IF i >= 0 \/ eof THEN n ELSE dirsRead + i
    IN  [i |-> i, beg |-> beg, end |-> end,
         panicked |-> ~(0 <= beg /\ beg <= end /\ end <= n),
         err |-> IF eof THEN EOF ELSE Nil,
         dirsRead |-> IF eof THEN 0 ELSE dirsRead]

\* a directory File of some number of entries, not yet read
InitDir ==
    /\ dirf \in [n : 0..MaxEntries, dirsRead : {0}, calls : {<<>>}]
    /\ OpenIdle
    /\ FSIdle
    /\ WriteIdle
    /\ ChaseIdle
    /\ ExtractIdle
    /\ DecIdle

\* one call of File.ReadDir; a panic ends the program
ReadDir ==
    /\ Len(dirf.calls) < MaxCalls
    /\ \A k \in 1..Len(dirf.calls) : ~dirf.calls[k].panicked
    /\ \E i \in ReadDirArgs :
         LET r == FileReadDir(dirf.n, dirf.dirsRead, i)
         IN  dirf' = [dirf EXCEPT !.calls = Append(@, r),
                                  !.dirsRead = IF r.panicked THEN @ ELSE r.dirsRead]
    /\ UNCHANGED notDir

SpecDir == InitDir /\ [][ReadDir]_vars

(***************************************************************************)
(* File.WriteTo, in the File of part_001 that holds a reader (File) and in *)
(* the File built on a FileCore (FileCore).                                *)
(***************************************************************************)
\* the number of stack frames a goroutine can hold, scaled down
MaxStack == 4

FileImpls == {"File", "FileCore"}

fsErrClosed == "fs.ErrClosed"

\* File.WriteTo(w) of the File on a FileCore, rdr being nil after Close
coreFileWriteTo(closed, f, room) ==
    IF closed
    THEN [n |-> 0, bytes |-> <<>>, err |-> fsErrClosed]
    ELSE fileReaderWriteTo(f, room)

\* a regular File of either implementation, open or closed
InitFileWrite ==
    /\ file \in {in \in Inodes : WellFormed(in)}
    /\ fr = newFileReader(file)
    /\ fw = newFileReader(file)
    /\ out = <<>>
    /\ last = NoCall
    /\ sink = <<>>
    /\ wret = NotReturned
    /\ wt \in [impl : FileImpls, closed : BOOLEAN, depth : {0}, crashed : {FALSE}]
    /\ NoOpening
    /\ FSIdle
    /\ DirIdle
    /\ ChaseIdle
    /\ ExtractIdle
    /\ DecIdle

\* File.WriteTo of the File on a FileCore: the whole call
CoreFileWriteTo ==
    /\ wt.impl = "FileCore"
    /\ ~wret.done
    /\ \E room \in SinkRooms :
         LET r == coreFileWriteTo(wt.closed, fw, room)
         IN  /\ sink' = r.bytes
             /\ wret' = [done |-> TRUE, n |-> r.n, err |-> r.err]
    /\ UNCHANGED <<file, fr, out, last, fw, wt>>
    /\ UNCHANGED notStream

\* File.WriteTo of part_001: the body is the call f.WriteTo(w), which puts
\* one more frame of the same method on the stack; the runtime ends the
\* program when the stack is full
FileWriteToCall ==
    /\ wt.impl = "File"
    /\ ~wt.crashed
    /\ wt' = [wt EXCEPT !.depth = @ + 1, !.crashed = (wt.depth >= MaxStack)]
    /\ UNCHANGED readVars
    /\ UNCHANGED notStream

NextFileWrite == CoreFileWriteTo \/ FileWriteToCall

SpecFileWrite == InitFileWrite /\ [][NextFileWrite]_vars

(***************************************************************************)
(* File.GetSymlinkFile and File.GetSymlinkFileRecursive of part_001.  The  *)
(* parent of a File is the FileFS (of part_003) of the directory File that *)
(* listed it.                                                              *)
(***************************************************************************)
\* the targets of the symlinks tried: names of the same directory, the empty
\* path, a path ending in "/", an absolute path, a path through ".."
SymTargets ==
    {<<"a">>, <<"b">>, <<"c">>, <<>>, <<"a", "/">>, <<"/", "a">>,
     <<".", ".", "/", "a">>}

\* a root directory with entries a, b and c, each a regular file, an empty
\* directory or a symlink
SymTrees ==
    {<<DirNode(<<Entry(<<"a">>, 2), Entry(<<"b">>, 3), Entry(<<"c">>, 4)>>),
       x, y, z>> :
        x \in {FileNode, DirNode(<<>>)} \cup {SymNode(p) : p \in SymTargets},
        y \in {FileNode} \cup {SymNode(p) : p \in SymTargets},
        z \in {FileNode} \cup {SymNode(p) : p \in SymTargets}}

\* File.IsSymlink and File.SymlinkPath
IsSymlink(t, f) == t[f.node].kind = "symlink"
SymlinkPath(t, f) == t[f.node].target

\* strings.HasSuffix(s, "/")
HasSlashSuffix(s) == s # <<>> /\ s[Len(s)] = "/"

\* the directory File behind f.parent
ParentDir(t, f) ==
    [node |-> f.parent,
     parent |-> IF \E d \in 1..Len(t) : \E i \in 1..Len(t[d].entries) :
                       t[d].entries[i].node = f.parent
                THEN CHOOSE d \in 1..Len(t) : \E i \in 1..Len(t[d].entries) :
                       t[d].entries[i].node = f.parent
                ELSE 0]

\* File.GetSymlinkFile
GetSymlinkFile(t, f) ==
    IF ~IsSymlink(t, f) THEN NilFile
    ELSE IF HasSlashSuffix(SymlinkPath(t, f)) THEN NilFile
    ELSE LET o == OpenFile(t, ParentDir(t, f), SymlinkPath(t, f))
         IN  IF o.err # Nil THEN NilFile ELSE o.file

\* GetSymlinkFileRecursive is called on an entry of the root directory
InitSym ==
    /\ tree \in SymTrees
    /\ \E i \in 1..Len(tree[RootNode].entries) :
         chase = [pc |-> "entry", sym |-> NilFile, ret |-> NilFile,
                  f |-> [node |-> tree[RootNode].entries[i].node,
                         parent |-> RootNode]]
    /\ fsimpl = "part_003"
    /\ pathname = <<>>
    /\ opened = NotLooked
    /\ subbed = NotSubbed
    /\ OpenIdle
    /\ DirIdle
    /\ WriteIdle
    /\ ExtractIdle
    /\ DecIdle

\* the two tests before the loop, and sym := f
ChaseEnter ==
    /\ chase.pc = "entry"
    /\ chase' =
         IF ~IsSymlink(tree, chase.f) \/ HasSlashSuffix(SymlinkPath(tree, chase.f))
         THEN [chase EXCEPT !.pc = "done", !.ret = NilFile]
         ELSE [chase EXCEPT !.pc = "loop", !.sym = chase.f]
    /\ UNCHANGED notChase

\* the loop, its first statement: sym = sym.GetSymlinkFile()
ChaseCall ==
    /\ chase.pc = "loop"
    /\ chase' = [chase EXCEPT !.pc = "test",
                              !.sym = GetSymlinkFile(tree, chase.sym)]
    /\ UNCHANGED notChase

\* the loop, its two tests: return nil, return sym, or go round again
ChaseTest ==
    /\ chase.pc = "test"
    /\ chase' =
         IF chase.sym = NilFile
         THEN [chase EXCEPT !.pc = "done", !.ret = NilFile]
         ELSE IF ~IsSymlink(tree, chase.sym)
         THEN [chase EXCEPT !.pc = "done", !.ret = chase.sym]
         ELSE [chase EXCEPT !.pc = "loop"]
    /\ UNCHANGED notChase

NextSym == ChaseEnter \/ ChaseCall \/ ChaseTest

SpecSym == InitSym /\ [][NextSym]_vars /\ WF_vars(NextSym)

(***************************************************************************)
(* Extraction of a directory: ExtractWithOptions starts one goroutine per  *)
(* child, each sends its result on an unbuffered channel, and the parent   *)
(* receives once per child.  The extraction of a child is one step with a  *)
(* given outcome; an error is named by the child that reported it.         *)
(***************************************************************************)
\* the largest number of children of the directory
MaxChildren == 3

\* File.ExtractWithOptions of part_001, and the two FileCore.ExtractWithOptions
\* of squashfsreader.go: the one returning error, the one returning []error
ExtractImpls == {"File", "FileCore.error", "FileCore.errs"}

\* what happens to a child: it is extracted, its extraction reports an
\* error, or (part_001) its DirEntry.Info fails
Outcomes(i) ==
    IF i = "File" THEN {"ok", "fails", "infoFails"} ELSE {"ok", "fails"}

\* the result child c sends: child.ExtractWithOptions(...)
childResult(children, c) == IF children[c] = "fails" THEN <<c>> ELSE <<>>

\* what the parent does with a received result r, having collected errs:
\* the error-returning version returns at the first non-nil error, the
\* others append
received(i, errs, r) ==
    IF i = "FileCore.error"
    THEN [errs |-> r, returns |-> r # <<>>]
    ELSE [errs |-> errs \o r, returns |-> FALSE]

\* ReadDir has returned the children and the goroutines have been started
InitExtract ==
    /\ \E i \in ExtractImpls, n \in 0..MaxChildren :
         \E ch \in [1..n -> Outcomes(i)] :
            ext = [NoExtract EXCEPT !.impl = i, !.children = ch,
                                    !.g = [c \in 1..n |-> "start"],
                                    !.parent = "recv"]
    /\ OpenIdle
    /\ FSIdle
    /\ DirIdle
    /\ WriteIdle
    /\ ChaseIdle
    /\ DecIdle

\* the goroutine of child c up to its send: in part_001 it calls
\* child.Info() and tests the err of the enclosing function (nil here)
\* instead of infErr, so after a failed Info it asserts info.(*File) on a nil
\* interface and the program panics; otherwise the child is extracted
ChildExtract(c) ==
    /\ ~ext.crashed
    /\ ext.g[c] = "start"
    /\ ext' = IF ext.children[c] = "infoFails"
              THEN [ext EXCEPT !.g[c] = "panicked", !.crashed = TRUE]
              ELSE [ext EXCEPT !.g[c] = "send"]
    /\ UNCHANGED notExtract

\* finishChan <- result in the goroutine of child c meets <-finishChan in
\* the loop of the parent
Handoff(c) ==
    /\ ~ext.crashed
    /\ ext.g[c] = "send"
    /\ ext.parent = "recv"
    /\ ext.got < Len(ext.children)
    /\ LET r == received(ext.impl, ext.errs, childResult(ext.children, c))
       IN  ext' = [ext EXCEPT !.g[c] = "done",
                              !.got = @ + 1,
                              !.errs = r.errs,
                              !.parent = IF r.returns THEN "returned" ELSE @]
    /\ UNCHANGED notExtract

\* the loop over the children is over: return
ParentReturn ==
    /\ ~ext.crashed
    /\ ext.parent = "recv"
    /\ ext.got = Len(ext.children)
    /\ ext' = [ext EXCEPT !.parent = "returned"]
    /\ UNCHANGED notExtract

NextExtract ==
    \/ \E c \in 1..Len(ext.children) : ChildExtract(c) \/ Handoff(c)
    \/ ParentReturn

SpecExtract == InitExtract /\ [][NextExtract]_vars

(***************************************************************************)
(* File handles.  A File is built from an inode by FileCore.AsFile or by   *)
(* Reader.newFileFromInode; afterwards the client calls Read, ReadDir,     *)
(* WriteTo and Close on it.  The bytes of the stream are those of          *)
(* fileReader above; here a Read that delivers is told from one that does  *)
(* not.                                                                    *)
(***************************************************************************)
\* the part of the archive behind the inode that cannot be read, if any: the
\* fragment block, the data blocks, the directory listing
HandleDamage == {"none", "fragment", "data", "listing"}

errPathIsNotFile == "The given path is not a file"

NilDereference == "nil pointer dereference"
StackOverflow == "stack overflow"

\* the result of one call on a handle
Returned(op, n, e) == [op |-> op, n |-> n, err |-> e, fault |-> Nil]
Faulted(op, why) == [op |-> op, n |-> 0, err |-> Nil, fault |-> why]

\* FileCore.newFileReader: the *fileReader and the error it returns.  The
\* error of newDataReaderFromInode is assigned and never looked at; the
\* reader is returned with its data field nil
coreNewFileReader(h) ==
    IF h.kind # "file" THEN [rdr |-> Nil, err |-> errPathIsNotFile]
    ELSE IF h.fragged /\ h.damage = "fragment"
    THEN [rdr |-> Nil, err |-> ErrUnexpectedEOF]
    ELSE IF ~h.fragOnly /\ h.damage = "data"
    THEN [rdr |-> "noData", err |-> Nil]
    ELSE [rdr |-> "ok", err |-> Nil]

\* FileCore.AsFile: the File, always returned, with no error beside it
AsFile(h) ==
    LET r == coreNewFileReader(h)
    IN  [h EXCEPT !.pc = "open",
                  !.directory = IF h.kind = "dir" /\ h.damage # "listing"
                                THEN "ok" ELSE Nil,
                  !.rdr = IF h.kind = "file" /\ r.err = Nil THEN r.rdr ELSE Nil,
                  !.openErr = Nil]

\* Reader.newFileReader of part_001's File: what fails is reported
readerNewFileReader(h) ==
    IF (h.fragged /\ h.damage = "fragment") \/ (~h.fragOnly /\ h.damage = "data")
    THEN [rdr |-> Nil, err |-> ErrUnexpectedEOF]
    ELSE [rdr |-> "ok", err |-> Nil]

\* Reader.newFileFromInode of part_001: the File, or nil and the error
newFileFromInode(h) ==
    IF h.kind = "file"
    THEN LET r == readerNewFileReader(h)
         IN  IF r.err # Nil THEN [h EXCEPT !.pc = "failed", !.openErr = r.err]
             ELSE [h EXCEPT !.pc = "open", !.rdr = r.rdr]
    ELSE IF h.kind = "dir"
    THEN IF h.damage = "listing"
         THEN [h EXCEPT !.pc = "failed", !.openErr = ErrUnexpectedEOF]
         ELSE [h EXCEPT !.pc = "open", !.directory = "ok"]
    ELSE [h EXCEPT !.pc = "open"]

\* what a Read of a sound stream returns: bytes, or none and io.EOF
StreamReads == {[n |-> 1, err |-> Nil], [n |-> 0, err |-> EOF]}

\* fileReader.Read on the *fileReader r: the receiver is dereferenced at
\* once, and in the data-block branch so is its data field
fileReaderReadOn(r, s) ==
    IF r = Nil \/ r = "noData" THEN Faulted("Read", NilDereference)
    ELSE Returned("Read", s.n, s.err)

\* File.Read of the File on a FileCore
coreFileRead(h, s) ==
    IF h.rdr = Nil THEN Returned("Read", 0, fsErrClosed)
    ELSE fileReaderReadOn(h.rdr, s)

\* File.Read of part_001
fileRead(h, s) ==
    IF h.kind # "file" THEN Returned("Read", 0, EOF)
    ELSE fileReaderReadOn(h.rdr, s)

\* File.ReadDir of the File on a FileCore, on its first test
coreFileReadDir(h) ==
    IF h.kind # "dir" \/ h.directory = Nil
    THEN Returned("ReadDir", 0, errNotDirectory)
    ELSE Returned("ReadDir", 1, Nil)

\* File.ReadDir of part_001, on its first test
fileReadDir(h) ==
    IF h.kind # "dir" THEN Returned("ReadDir", 0, errReadDirNonDir)
    ELSE Returned("ReadDir", 1, Nil)

\* File.WriteTo of the File on a FileCore
coreHandleWriteTo(h) ==
    IF h.rdr = Nil THEN Returned("WriteTo", 0, fsErrClosed)
    ELSE IF h.rdr = "noData" THEN Faulted("WriteTo", NilDereference)
    ELSE Returned("WriteTo", 1, Nil)

\* File.Close of the File on a FileCore: the error, and the rdr field after
coreFileClose(h) ==
    IF h.rdr = Nil THEN Returned("Close", 0, fsErrClosed)
    ELSE Returned("Close", 0, Nil)

\* File.Close of part_001
fileClose(h) == Returned("Close", 0, Nil)

\* an inode of a regular file or of a directory, sound or damaged, and the
\* implementation that will build its File
InitHandle ==
    /\ \E i \in FileImpls, k \in {"file", "dir"}, fg \in BOOLEAN, fo \in BOOLEAN,
          d \in HandleDamage :
         /\ k = "dir" => ~fg /\ ~fo
         /\ hnd = [NoHandle EXCEPT !.impl = i, !.kind = k, !.fragged = fg,
                                   !.fragOnly = fo, !.damage = d, !.pc = "new"]
    /\ PairIdle
    /\ ListingIdle
    /\ IdTableIdle
    /\ InodeIdle
    /\ OpenIdle
    /\ WalkIdle

\* the client may call the handle: it has one, and the program has not faulted
Callable ==
    /\ hnd.pc = "open"
    /\ Len(hnd.calls) < MaxCalls
    /\ \A k \in 1..Len(hnd.calls) : hnd.calls[k].fault = Nil

\* the operation that opens the file or directory
OpenHandle ==
    /\ hnd.pc = "new"
    /\ hnd' = IF hnd.impl = "FileCore" THEN AsFile(hnd) ELSE newFileFromInode(hnd)
    /\ UNCHANGED <<two, dirb, idt, pin>>
    /\ UNCHANGED <<readVars, openVars, walkVars>>

HandleRead ==
    /\ Callable
    /\ \E s \in StreamReads :
         hnd' = [hnd EXCEPT !.calls =
                    Append(@, IF hnd.impl = "FileCore" THEN coreFileRead(hnd, s)
                              ELSE fileRead(hnd, s))]
    /\ UNCHANGED <<two, dirb, idt, pin>>
    /\ UNCHANGED <<readVars, openVars, walkVars>>

HandleReadDir ==
    /\ Callable
    /\ hnd' = [hnd EXCEPT !.calls =
                  Append(@, IF hnd.impl = "FileCore" THEN coreFileReadDir(hnd)
                            ELSE fileReadDir(hnd))]
    /\ UNCHANGED <<two, dirb, idt, pin>>
    /\ UNCHANGED <<readVars, openVars, walkVars>>

\* File.WriteTo; part_001's calls itself until the stack is full
HandleWriteTo ==
    /\ Callable
    /\ hnd' = [hnd EXCEPT !.calls =
                  Append(@, IF hnd.impl = "FileCore" THEN coreHandleWriteTo(hnd)
                            ELSE Faulted("WriteTo", StackOverflow))]
    /\ UNCHANGED <<two, dirb, idt, pin>>
    /\ UNCHANGED <<readVars, openVars, walkVars>>

\* File.Close: both set the reader field to nil
HandleClose ==
    /\ Callable
    /\ hnd' = [hnd EXCEPT !.calls =
                  Append(@, IF hnd.impl = "FileCore" THEN coreFileClose(hnd)
                            ELSE fileClose(hnd)),
                          !.rdr = Nil]
    /\ UNCHANGED <<two, dirb, idt, pin>>
    /\ UNCHANGED <<readVars, openVars, walkVars>>

NextHandle ==
    \/ OpenHandle
    \/ HandleRead
    \/ HandleReadDir
    \/ HandleWriteTo
    \/ HandleClose

SpecHandle == InitHandle /\ [][NextHandle]_vars

(***************************************************************************)
(* Two handles of one regular file.  Every FileFS.Open of the path makes a *)
(* new File through DirEntry.Info and newFileFromDirEntry, and with it a   *)
(* new fileReader; the heap below holds the fileReaders, a handle is the   *)
(* address of its own.  Beside each handle runs a reader that is read      *)
(* alone with the same buffers.                                            *)
(***************************************************************************)
\* the Reader's superblock, decompressor, fragment super-table and id table
ReaderTables ==
    [super |-> BlockSize, decompressor |-> "gzip", fragOffsets |-> <<96>>,
     idTable |-> <<0, 1000>>]

\* the files opened twice: up to one data block and a short tail
PairInodes ==
    {in \in Inodes : WellFormed(in) /\ in.Size <= BlockSize + MaxSmallBuf}

\* the buffers the two handles are read with
PairBufSizes == {1, MaxSmallBuf, BlockSize}

\* an Open that hands out the File made by the Open before it
newFileFromDirEntryShared(t) ==
    [t EXCEPT !.heap = IF t.heap = <<>> THEN <<newFileReader(t.in)>> ELSE t.heap,
              !.h = Append(t.h, 1),
              !.solo = Append(t.solo, newFileReader(t.in)),
              !.got = Append(t.got, <<>>),
              !.alone = Append(t.alone, <<>>),
              !.errs = Append(t.errs, Nil)]

\* DirEntry.Info and newFileFromDirEntry, newFileFromInode: fil = new(File)
\* with a reader of its own
newFileFromDirEntry(t) ==
    [t EXCEPT !.heap = Append(t.heap, newFileReader(t.in)),
              !.h = Append(t.h, Len(t.heap) + 1),
              !.solo = Append(t.solo, newFileReader(t.in)),
              !.got = Append(t.got, <<>>),
              !.alone = Append(t.alone, <<>>),
              !.errs = Append(t.errs, Nil)]

\* File.Read on handle i: fileReader.Read on the handle's reader, which
\* takes its bytes through the Reader's tables and leaves them as they are
pairRead(t, i, plen, eager) ==
    LET r == fileReaderRead(t.heap[t.h[i]], plen, eager)
        a == fileReaderRead(t.solo[i], plen, eager)
    IN  [t EXCEPT !.heap[t.h[i]] = r.f,
                  !.got[i] = @ \o r.bytes,
                  !.errs[i] = r.err,
                  !.solo[i] = a.f,
                  !.alone[i] = @ \o a.bytes,
                  !.turn = i,
                  !.switches = IF t.turn \notin {0, i} THEN Min(@ + 1, 2) ELSE @]

InitPair ==
    /\ \E in \in PairInodes : two = [NoPair EXCEPT !.in = in, !.tables = ReaderTables]
    /\ HandleIdle
    /\ ListingIdle
    /\ IdTableIdle
    /\ InodeIdle
    /\ OpenIdle
    /\ WalkIdle

\* FileFS.Open of the file's path
PairOpen ==
    /\ Len(two.h) < 2
    /\ two' = newFileFromDirEntry(two)
    /\ UNCHANGED <<hnd, dirb, idt, pin>>
    /\ UNCHANGED <<readVars, openVars, walkVars>>

\* one Read on one of the two handles; each is read until its first error,
\* or until MaxExtra bytes beyond the file's size came out
PairRead ==
    /\ Len(two.h) = 2
    /\ \E i \in 1..2, plen \in PairBufSizes, eager \in BOOLEAN :
         /\ two.errs[i] = Nil
         /\ Len(two.got[i]) < two.in.Size + MaxExtra
         /\ two' = pairRead(two, i, plen, eager)
    /\ UNCHANGED <<hnd, dirb, idt, pin>>
    /\ UNCHANGED <<readVars, openVars, walkVars>>

NextPair == PairOpen \/ PairRead

SpecPair == InitPair /\ [][NextPair]_vars

(***************************************************************************)
(* directory.NewDirectory.  A listing is laid out on disk as runs: a       *)
(* header of 12 bytes and its entries, each a record of 8 bytes and the    *)
(* name; all fields are little-endian.  The decoder works on the bytes.    *)
(***************************************************************************)
HeaderSize == 12         \* binary.Size(Header{})
EntryRawSize == 8        \* binary.Size(EntryRaw{})
EntriesPerHeader == 256  \* i%256 in NewDirectory

\* the largest number of runs of a listing
MaxRuns == 2

LE16(v) == <<v % 256, (v \div 256) % 256>>
LE32(v) == LE16(v % 65536) \o LE16(v \div 65536)
U16(b, p) == b[p + 1] + 256 * b[p + 2]
U32(b, p) == U16(b, p) + 65536 * U16(b, p + 2)

\* hdr.Count++ on the uint32 at p: the largest value wraps to 0
Incr32(b, p) ==
    IF U16(b, p) = 65535 /\ U16(b, p + 2) = 65535 THEN 0 ELSE U32(b, p) + 1

\* the entries a listing is made of: a name, a kind, an offset inside the
\* inode-table block
DiskEntries ==
    {[Name |-> <<97>>, Type |-> 2, Offset |-> 0],
     [Name |-> <<98, 99>>, Type |-> 1, Offset |-> 300]}

\* the runs: one or two entries under a header that names the inode-table
\* block
DiskRuns ==
    {[InodeOffset |-> o, InodeNumber |-> 5, entries |-> es] :
        o \in {0, 8192},
        es \in {<<e>> : e \in DiskEntries}
               \cup {<<e, f>> : e \in DiskEntries, f \in DiskEntries}}

RECURSIVE SeqsUpTo(_, _)
SeqsUpTo(S, n) ==
    IF n = 0 THEN {<<>>}
    ELSE LET shorter == SeqsUpTo(S, n - 1)
         IN  shorter \cup {Append(s, x) : s \in {t \in shorter : Len(t) = n - 1},
                                         x \in S}

Listings == SeqsUpTo(DiskRuns, MaxRuns)

\* the bytes of an entry record and of a run, as mksquashfs writes them
EncodeEntry(e) ==
    LE16(e.Offset) \o LE16(0) \o LE16(e.Type) \o LE16(Len(e.Name) - 1) \o e.Name

RECURSIVE EncodeEntries(_)
EncodeEntries(es) ==
    IF es = <<>> THEN <<>> ELSE EncodeEntry(Head(es)) \o EncodeEntries(Tail(es))

EncodeRun(r) ==
    LE32(Len(r.entries) - 1) \o LE32(r.InodeOffset) \o LE32(r.InodeNumber)
        \o EncodeEntries(r.entries)

RECURSIVE EncodeListing(_)
EncodeListing(l) ==
    IF l = <<>> THEN <<>> ELSE EncodeRun(Head(l)) \o EncodeListing(Tail(l))

\* binary.Read of n bytes from the bytes.Buffer over b, pos bytes of which
\* are consumed: io.ReadFull gives io.EOF when no byte is left and
\* io.ErrUnexpectedEOF when fewer than n are
binaryRead(b, pos, n) ==
    LET avail == Len(b) - pos
    IN  IF n = 0 THEN [err |-> Nil, pos |-> pos]
        ELSE IF avail = 0 THEN [err |-> EOF, pos |-> pos]
        ELSE IF avail < n THEN [err |-> ErrUnexpectedEOF, pos |-> Len(b)]
        ELSE [err |-> Nil, pos |-> pos + n]

NoEntry == [Name |-> <<>>, Type |-> 0, InodeBlockOffset |-> 0, InodeOffset |-> 0]

\* directory.NewEntry
NewEntry(b, pos) ==
    LET raw  == binaryRead(b, pos, EntryRawSize)
        size == (U16(b, pos + 6) + 1) % 65536
        tmp  == binaryRead(b, raw.pos, size)
    IN  IF raw.err # Nil THEN [err |-> raw.err, pos |-> raw.pos, ent |-> NoEntry]
        ELSE IF tmp.err # Nil THEN [err |-> tmp.err, pos |-> tmp.pos, ent |-> NoEntry]
        ELSE [err |-> Nil, pos |-> tmp.pos,
              ent |-> [Name |-> SubSeq(b, raw.pos + 1, raw.pos + size),
                       Type |-> U16(b, pos + 4),
                       InodeBlockOffset |-> U16(b, pos),
                       InodeOffset |-> 0]]

\* err == io.ErrUnexpectedEOF at the top of the loop
headerEndsListing(e) == e = ErrUnexpectedEOF

RECURSIVE headerLoop(_, _, _), entryLoop(_, _, _, _, _, _)
\* the for loop of NewDirectory: a header, then its entries
headerLoop(b, pos, entries) ==
    LET hdr == binaryRead(b, pos, HeaderSize)
    IN  IF headerEndsListing(hdr.err) THEN [entries |-> entries, err |-> Nil]
        ELSE IF hdr.err # Nil THEN [entries |-> <<>>, err |-> hdr.err]
        ELSE entryLoop(b, hdr.pos, Incr32(b, pos), U32(b, pos + 4), 0, entries)

\* the inner loop: entry i of hdr.Count, a header read anew every 256 entries
entryLoop(b, pos, Count, InodeOffset, i, entries) ==
    IF i >= Count THEN headerLoop(b, pos, entries)
    ELSE IF i # 0 /\ i % EntriesPerHeader = 0
    THEN LET hdr == binaryRead(b, pos, HeaderSize)
             ent == NewEntry(b, hdr.pos)
         IN  IF hdr.err # Nil THEN [entries |-> <<>>, err |-> hdr.err]
             ELSE IF ent.err # Nil THEN [entries |-> <<>>, err |-> ent.err]
             ELSE entryLoop(b, ent.pos, U32(b, pos), U32(b, pos + 4), i + 1,
                            Append(entries,
                                   [ent.ent EXCEPT !.InodeOffset = U32(b, pos + 4)]))
    ELSE LET ent == NewEntry(b, pos)
         IN  IF ent.err # Nil THEN [entries |-> <<>>, err |-> ent.err]
             ELSE entryLoop(b, ent.pos, Count, InodeOffset, i + 1,
                            Append(entries,
                                   [ent.ent EXCEPT !.InodeOffset = InodeOffset]))

\* directory.NewDirectory(base, size), base delivering the size bytes b
NewDirectory(b) == headerLoop(b, 0, <<>>)

\* a listing in the directory table, the bytes that follow it there, and a
\* directory inode whose size covers the listing and 0 to 11 bytes more
InitListing ==
    /\ \E l \in Listings, t \in 0..(HeaderSize - 1), v \in {0, 255} :
         dirb = [NoListing EXCEPT !.laid = l, !.trailing = t,
                                  !.bytes = EncodeListing(l) \o [k \in 1..t |-> v]]
    /\ HandleIdle
    /\ PairIdle
    /\ IdTableIdle
    /\ InodeIdle
    /\ OpenIdle
    /\ WalkIdle

DecodeListing ==
    /\ ~dirb.done
    /\ LET r == NewDirectory(dirb.bytes)
       IN  dirb' = [dirb EXCEPT !.done = TRUE, !.entries = r.entries, !.err = r.err]
    /\ UNCHANGED <<hnd, two, idt, pin>>
    /\ UNCHANGED <<readVars, openVars, walkVars>>

SpecListing == InitListing /\ [][DecodeListing]_vars

(***************************************************************************)
(* The id table.  NewSquashfsReader reads the super-table of block         *)
(* offsets and then the ids of each metadata block; the table is kept as   *)
(* the runs appended to it, one per block.                                 *)
(***************************************************************************)
IdsPerBlock == 2048     \* the uint32 ids of a full metadata block
OffsetSize == 8         \* the bytes of one uint64 block offset
Part000SuperTable == 8  \* the length of part_000's SectionReader

\* the id counts of the superblocks tried (a uint16)
IdCounts ==
    {0, 1, 2, 2047, 2048, 2049, 4095, 4096, 4097, 6145, 10000, 20000, 40000, 65535}

\* the number of block offsets: reader.go divides and rounds up, part_000
\* takes the ceiling of the quotient
blockOffsetCount(n) == (n \div IdsPerBlock) + (IF n % IdsPerBlock > 0 THEN 1 ELSE 0)

\* binary.Read of the block offsets of an intact archive: reader.go reads
\* from the archive, part_000 from a section of 8 bytes
readBlockOffsets(i, blocks) ==
    IF i = "part_000" /\ blocks * OffsetSize > Part000SuperTable
    THEN ErrUnexpectedEOF ELSE Nil

\* a block read as if it were always full
idsInBlockFull(unread) == IdsPerBlock

\* read: 2048 ids, or those still unread if they are fewer
idsInBlock(unread) == IF unread > IdsPerBlock THEN IdsPerBlock ELSE unread

RECURSIVE IdsHeld(_)
\* len(rdr.idTable)
IdsHeld(t) == IF t = <<>> THEN 0 ELSE Head(t).n + IdsHeld(Tail(t))

InitIdTable ==
    /\ \E i \in Impls, n \in IdCounts :
         idt = [NoIdTable EXCEPT !.impl = i, !.IDCount = n, !.pc = "offsets"]
    /\ HandleIdle
    /\ PairIdle
    /\ ListingIdle
    /\ InodeIdle
    /\ OpenIdle
    /\ WalkIdle

\* the super-table is read, unread is set
ReadBlockOffsets ==
    /\ idt.pc = "offsets"
    /\ LET blocks == blockOffsetCount(idt.IDCount)
           e == readBlockOffsets(idt.impl, blocks)
       IN  idt' = IF e # Nil THEN [idt EXCEPT !.pc = "done", !.err = e]
                  ELSE [idt EXCEPT !.pc = IF blocks = 0 THEN "done" ELSE "block",
                                   !.blocks = blocks, !.next = 1,
                                   !.unread = idt.IDCount]
    /\ UNCHANGED <<hnd, two, dirb, pin>>
    /\ UNCHANGED <<readVars, openVars, walkVars>>

\* one turn of the loop over the block offsets
ReadIdBlock ==
    /\ idt.pc = "block"
    /\ LET read == idsInBlock(idt.unread)
       IN  idt' = [idt EXCEPT !.idTable = Append(@, [block |-> idt.next, n |-> read]),
                              !.unread = @ - read,
                              !.next = @ + 1,
                              !.pc = IF idt.next = idt.blocks THEN "done" ELSE "block"]
    /\ UNCHANGED <<hnd, two, dirb, pin>>
    /\ UNCHANGED <<readVars, openVars, walkVars>>

NextIdTable == ReadBlockOffsets \/ ReadIdBlock

SpecIdTable == InitIdTable /\ [][NextIdTable]_vars

(***************************************************************************)
(* inode.ProcessInode: the common header, then the tail the type tag       *)
(* selects.                                                                *)
(***************************************************************************)
\* the type tags the switch of ProcessInode has a case for
KnownTypes ==
    {"DirType", "FileType", "SymType", "BlockDevType", "CharDevType", "FifoType",
     "SocketType", "ExtDirType", "ExtFileType", "ExtSymType", "ExtBlockDeviceType",
     "ExtCharDeviceType", "ExtFifoType", "ExtSocketType"}

\* type tags of a header that are none of them
UnknownTypes == {"0", "15", "255", "65535"}

\* where the metadata stream ends early, if it does
InodeCuts == {"none", "header", "tail"}

\* the type of the value the case of tag t stores in Info
Variant(t) ==
    CASE t = "DirType" -> "Dir"
      [] t = "FileType" -> "File"
      [] t = "SymType" -> "Sym"
      [] t \in {"BlockDevType", "CharDevType"} -> "Device"
      [] t \in {"FifoType", "SocketType"} -> "IPC"
      [] t = "ExtDirType" -> "ExtDir"
      [] t = "ExtFileType" -> "ExtFile"
      [] t = "ExtSymType" -> "ExtSym"
      [] t \in {"ExtBlockDeviceType", "ExtCharDeviceType"} -> "ExtDevice"
      [] t \in {"ExtFifoType", "ExtSocketType"} -> "ExtIPC"

\* the switch of ProcessInode: a case reads the tail and stores it; there is
\* no default, so a tag without a case leaves Info nil and err nil
processTail(t, cut) ==
    IF t \in KnownTypes
    THEN IF cut = "tail" THEN [Info |-> Nil, err |-> ErrUnexpectedEOF]
         ELSE [Info |-> Variant(t), err |-> Nil]
    ELSE [Info |-> Nil, err |-> Nil]

InitInode ==
    /\ \E t \in KnownTypes \cup UnknownTypes, cut \in InodeCuts :
         pin = [NoInode EXCEPT !.Type = t, !.cut = cut, !.pc = "header"]
    /\ HandleIdle
    /\ PairIdle
    /\ ListingIdle
    /\ IdTableIdle
    /\ OpenIdle
    /\ WalkIdle

\* binary.Read of i.Header
ReadInodeHeader ==
    /\ pin.pc = "header"
    /\ pin' = IF pin.cut = "header"
              THEN [pin EXCEPT !.pc = "returned", !.err = ErrUnexpectedEOF]
              ELSE [pin EXCEPT !.pc = "switch"]
    /\ UNCHANGED <<hnd, two, dirb, idt>>
    /\ UNCHANGED <<readVars, openVars, walkVars>>

\* switch i.Type and the return after it
ReadInodeTail ==
    /\ pin.pc = "switch"
    /\ LET r == processTail(pin.Type, pin.cut)
       IN  pin' = [pin EXCEPT !.pc = "returned", !.Info = r.Info, !.err = r.err]
    /\ UNCHANGED <<hnd, two, dirb, idt>>
    /\ UNCHANGED <<readVars, openVars, walkVars>>

NextInode == ReadInodeHeader \/ ReadInodeTail

SpecInode == InitInode /\ [][NextInode]_vars

(***************************************************************************)
(* The regular-file stream: claims C1 to C4.                               *)
(***************************************************************************)
\* File.Size
Size(in) == in.Size

HasBlocksAndFragment(in) == in.Fragmented /\ BlockCount(in) > 0
IsFragmentOnly(in) == in.Fragmented /\ in.BlockStart = 0

\* C1: for a file with data blocks and a fragment tail, whatever the buffer
\* sizes, the bytes Read has delivered are always the first bytes of the data
\* blocks followed by the fragment, and at the first io.EOF they are all of
\* them, each once and in file order.
C1_ReadIsBlocksThenFragment ==
    HasBlocksAndFragment(file) =>
        /\ IsPrefix(out, FileBytes(file))
        /\ last.err = EOF => out = FileBytes(file)

\* C2: for every regular file the Read calls reach io.EOF after finitely many
\* calls and have then returned File.Size() bytes in all: the count of bytes
\* returned never passes Size(), and it is Size() when io.EOF is returned.
C2_ReadEndsAtSize ==
    /\ Len(out) <= Size(file)
    /\ last.err = EOF => Len(out) = Size(file)

\* C3: WriteTo on a fresh reader writes exactly the bytes a fresh reader
\* delivers through Read up to io.EOF, and returns the number of bytes it
\* wrote.
C3_WriteToEqualsRead ==
    /\ wret.done => wret.n = Len(sink)
    /\ (wret.done /\ wret.err = Nil) =>
          /\ IsPrefix(out, sink)
          /\ last.err = EOF => out = sink

\* C4: a file with block_start = 0 and a fragment is read as fragment only:
\* every Read returns the next bytes of the fragment from a cursor that
\* advances by what was returned, so that nothing is repeated or skipped, and
\* the Read after the last byte returns 0 bytes and io.EOF; a 10-byte
\* fragment gives exactly its 10 bytes and then io.EOF.
C4_FragmentOnlyRead ==
    IsFragmentOnly(file) =>
        LET frag == getFragmentDataFromInode(file)
        IN  /\ fr.read = Len(out)
            /\ out = SubSeq(frag, 1, Len(out))
            /\ last.plen > 0 =>
                  /\ last.n = Min(last.plen, Len(frag) - last.pre)
                  /\ last.err = (IF last.pre = Len(frag) THEN EOF ELSE Nil)
            /\ last.err = EOF => (last.n = 0 /\ out = frag)

\* the 10-byte fragment-only file has been read to io.EOF
C4_TenByteFileReadToEOF ==
    /\ IsFragmentOnly(file)
    /\ Size(file) = 10
    /\ file.FragmentOffset = 0
    /\ last.err = EOF
    /\ out = <<101, 102, 103, 104, 105, 106, 107, 108, 109, 110>>

(***************************************************************************)
(* Opening an archive: claims C5 to C10.                                   *)
(***************************************************************************)
Done == pc = "done"
Did(name) == \E i \in 1..Len(steps) : steps[i] = name

\* the steps that come after the decompressor is chosen
LaterSteps == {"fragTable", "idTable", "rootInode", "rootFile", "return"}

SupportedCompression ==
    {GzipCompression, LzmaCompression, XzCompression, Lz4Compression, ZstdCompression}

\* C5: when the superblock's magic field is not 0x73717368 NewSquashfsReader
\* returns the bad-magic error and no Reader, when it is 0x73717368 it never
\* returns bad-magic, and nothing but the read of the superblock precedes the
\* magic check.
C5_BadMagic ==
    /\ (Done /\ Did("magic") /\ arch.Magic # magic) =>
          (ret.err = errNoMagic /\ ~ret.rdr /\ steps = <<"superblock", "magic">>)
    /\ (Done /\ arch.Magic = magic) => ret.err # errNoMagic
    /\ arch.Magic # magic => \A i \in 1..Len(steps) : steps[i] \in {"superblock", "magic"}

C5_BadMagicReturned ==
    Done /\ arch.Magic # magic /\ ret.err = errNoMagic /\ arch.damage = "none"

\* C6: NewSquashfsReader returns no Reader for any superblock in which
\* block_size is not 2^block_log.
C6_BlockLogMismatchFails ==
    (Done /\ Did("superblock") /\ arch.BlockSize # Pow2(arch.BlockLog)) => ~ret.rdr

\* C7: NewSquashfsReader returns no Reader for a superblock whose block_size
\* is outside [4096, 1048576], also when block_log is log2(block_size).
C7_BlockSizeRangeFails ==
    (/\ Done
     /\ Did("superblock")
     /\ arch.BlockSize \notin 4096..1048576
     /\ arch.BlockSize = Pow2(arch.BlockLog)) => ~ret.rdr

\* C8: once the magic and block-log checks have passed, NewSquashfsReader
\* fails with the unsupported-compression error exactly when the compression
\* tag is outside {1, 2, 4, 5, 6}, with the options flag set or not.
C8_UnsupportedCompressionIff ==
    (Done /\ Did("decompressor")) =>
        (ret.err = errIncompatibleCompression
            <=> arch.CompressionType \notin SupportedCompression)

\* the gzip options block is read and no later part of the archive is damaged
GzipOptionsOpen ==
    /\ Did("decompressor")
    /\ arch.CompressionType = GzipCompression
    /\ arch.compressorOptions
    /\ arch.damage = "none"

\* rdr.FileFS (rdr.File in the older version) is set, with the entries of a
\* root directory that newFileFromInode decodes
RootPopulated ==
    /\ rdr.root # Nil
    /\ (impl = "reader.go" /\ arch.rootType = "dir") => rdr.entries

C10_XzFiltersFatal ==
    (/\ arch.CompressionType = XzCompression
     /\ arch.compressorOptions
     /\ arch.options.filters # 0) =>
        /\ \A i \in 1..Len(steps) : steps[i] \notin LaterSteps
        /\ rdr.root = Nil /\ ~rdr.fragOffsets /\ ~rdr.idTable
        /\ Done => (ret.err # Nil /\ ~ret.rdr)

C10_XzFiltersRejected ==
    /\ Done
    /\ arch.CompressionType = XzCompression
    /\ arch.compressorOptions
    /\ arch.options.filters # 0
    /\ ret.err = errXzFilters

(***************************************************************************)
(* FileFS.Open and FileFS.Sub: claims C11 to C15 and C17.                  *)
(***************************************************************************)
\* the elements of the path handed to Open
Elems == Split(pathname)

HasDotDot == \E k \in 1..Len(Elems) : Elems[k] = DotDot
HasStar == \E k \in 1..Len(pathname) : pathname[k] = "*"

\* the node reached from directory node n by taking the elements as entry
\* names, one directory per element; 0 when an element names no entry or a
\* directory is needed and the node is none
RECURSIVE Descend(_, _, _)
Descend(t, n, elems) ==
    IF elems = <<>> THEN n
    ELSE IF t[n].kind # "dir" THEN 0
    ELSE IF \A i \in 1..Len(t[n].entries) : t[n].entries[i].name # Head(elems)
    THEN 0
    ELSE LET i == CHOOSE i \in 1..Len(t[n].entries) :
                      t[n].entries[i].name = Head(elems)
         IN  Descend(t, t[n].entries[i].node, Tail(elems))

\* Open returned the File of node n, or failed with error e
OpenedNode(n) == opened.err = Nil /\ opened.file.node = n
OpenFailed(e) == opened.err = e /\ opened.file = NilFile

\* C11: Open("") and Open(".") succeed and return the directory the FileFS
\* wraps, in both FileFS implementations.
C11_EmptyAndDotOpenRoot ==
    (opened.done /\ pathname \in {<<>>, Dot}) => OpenedNode(RootNode)

\* Open(".") has returned the root directory
C11_DotOpened ==
    opened.done /\ pathname = Dot /\ opened.file = rootDir /\ opened.err = Nil

\* C12: Open rejects every path with a ".." element with fs.ErrInvalid and
\* returns no file, in both FileFS implementations.
C12_DotDotRejected ==
    (opened.done /\ HasDotDot) => OpenFailed(fsErrInvalid)

\* a path of k >= 1 elements that are plain names
PlainPath == ValidPath(pathname) /\ pathname # Dot /\ ~HasStar

\* C13: for a path of k >= 1 plain elements, Open returns the File reached
\* by descending one entry per element and lists at most k directories; it
\* fails with fs.ErrNotExist when an element names no entry or a non-final
\* element names a non-directory.
C13_DescentOrNotExist ==
    (opened.done /\ PlainPath) =>
        IF Descend(tree, RootNode, Elems) # 0
        THEN OpenedNode(Descend(tree, RootNode, Elems))
             /\ opened.levels <= Len(Elems)
        ELSE OpenFailed(fsErrNotExist)

\* C14: an element with "*" in it opens an entry only if the entry's name is
\* identical to the element; otherwise the result is fs.ErrNotExist.
C14_LiteralMatch ==
    (opened.done /\ ValidPath(pathname) /\ HasStar) =>
        IF Descend(tree, RootNode, Elems) # 0
        THEN OpenedNode(Descend(tree, RootNode, Elems))
        ELSE OpenFailed(fsErrNotExist)

\* C15: a path with a leading "/" is resolved exactly as the same path
\* without it; "/" alone opens the root.
C15_LeadingSlashStripped ==
    (opened.done /\ HasPrefix(pathname, Slash)) =>
        LET o == FileFSOpen(fsimpl, tree, TrimPrefix(pathname, Slash))
        IN  /\ opened.file = o.file
            /\ opened.err = o.err
            /\ (pathname = Slash => OpenedNode(RootNode))

\* Sub was called with a path that Open resolves to a File that is no
\* directory
SubOfNonDir ==
    /\ subbed.done
    /\ FileFSOpen(fsimpl, tree, pathname).err = Nil
    /\ ~IsDir(tree, FileFSOpen(fsimpl, tree, pathname).file)

\* C17: AsFS, and so Sub, of a File that is not a directory returns
\* errNotDirectory and no FileFS, in every implementation.
C17_SubOfNonDirFails ==
    SubOfNonDir => (subbed.err = errNotDirectory /\ ~subbed.isFS)

(***************************************************************************)
(* File.ReadDir: claim C16.                                                *)
(***************************************************************************)
\* where the claim puts the cursor after calls with the arguments args: a
\* call with i > 0 moves it on by i entries, or back to the first entry when
\* it reaches the end
RECURSIVE ClaimedCursor(_, _)
ClaimedCursor(n, args) ==
    IF args = <<>> THEN 0
    ELSE LET before == ClaimedCursor(n, SubSeq(args, 1, Len(args) - 1))
             i == args[Len(args)]
         IN  IF i <= 0 THEN before
             ELSE IF before + i >= n THEN 0
             ELSE before + i

\* C16: ReadDir(i) with i <= 0 returns all entries; with i > 0 it returns at
\* most i entries from the cursor on, successive calls returning consecutive
\* runs; a call that runs past the end returns io.EOF, and io.EOF is
\* returned only by a call that reached the end.
C16_ReadDirRuns ==
    \A k \in 1..Len(dirf.calls) :
        LET call == dirf.calls[k]
            cur == ClaimedCursor(dirf.n, [j \in 1..(k - 1) |-> dirf.calls[j].i])
        IN  /\ ~call.panicked
            /\ IF call.i <= 0
               THEN call.beg = 0 /\ call.end = dirf.n
               ELSE /\ call.beg = cur
                    /\ call.end = Min(cur + call.i, dirf.n)
                    /\ (cur + call.i > dirf.n => call.err = EOF)
                    /\ (call.err = EOF => call.end = dirf.n)

(***************************************************************************)
(* File.WriteTo: claim C18.                                                *)
(***************************************************************************)
\* C18: File.WriteTo on a regular file terminates: the call never exhausts
\* the stack, and once it has returned without error the writer holds the
\* complete content of the file and the count returned is its length.
C18_WriteToCompletes ==
    /\ ~wt.crashed
    /\ (wret.done /\ wret.err = Nil) =>
           (sink = FileBytes(file) /\ wret.n = Len(FileBytes(file)))

(***************************************************************************)
(* GetSymlinkFileRecursive: claim C19.                                     *)
(***************************************************************************)
\* the call has returned nil or a File that is no symlink
ChaseReturned ==
    /\ chase.pc = "done"
    /\ IF chase.ret = NilFile THEN TRUE ELSE ~IsSymlink(tree, chase.ret)

\* C19: GetSymlinkFileRecursive terminates on every archive, symlinks that
\* point at one another included, and returns nil or a File that is not a
\* symlink.
C19_ChaseTerminates == <>ChaseReturned

(***************************************************************************)
(* Extraction of a directory: claim C20.                                   *)
(***************************************************************************)
\* C20: the extraction of a directory goes on when a child fails (the
\* program does not stop), and the errors it returns contain the error of
\* every child that reported one.
C20_EveryChildEveryError ==
    /\ ~ext.crashed
    /\ ext.parent = "returned" =>
          \A c \in 1..Len(ext.children) :
              ext.children[c] # "ok" => \E k \in 1..Len(ext.errs) : ext.errs[k] = c

(***************************************************************************)
(* File handles: claims C21 and C29.                                       *)
(***************************************************************************)
\* building the File's reader or decoding its listing fails
ConstructionFails(h) ==
    \/ h.kind = "file" /\ h.fragged /\ h.damage = "fragment"
    \/ h.kind = "file" /\ ~h.fragOnly /\ h.damage = "data"
    \/ h.kind = "dir" /\ h.damage = "listing"

\* a Close call comes before call k
ClosedBefore(k) == \E j \in 1..(k - 1) : hnd.calls[j].op = "Close"

\* C21: when the data reader, the fragment or the listing of an inode cannot
\* be built, the operation that opens it returns that error and no handle;
\* so no Read or ReadDir on a handle that was never closed faults, and none
\* reports closed on a regular file or not-a-directory on a directory.
C21_FailureReturnedAtOpen ==
    /\ hnd.pc \in {"open", "failed"} /\ ConstructionFails(hnd) =>
          hnd.pc = "failed" /\ hnd.openErr # Nil
    /\ \A k \in 1..Len(hnd.calls) :
          LET c == hnd.calls[k]
          IN  ~ClosedBefore(k) /\ c.op \in {"Read", "ReadDir"} =>
                 /\ c.fault = Nil
                 /\ hnd.kind = "file" /\ c.op = "Read" => c.err # fsErrClosed
                 /\ hnd.kind = "dir" /\ c.op = "ReadDir" => c.err # errNotDirectory

\* C29: after Close on a regular File, a Read returns an error and no bytes
\* and does not fault, in both implementations; on the File over a FileCore
\* Read, WriteTo and a second Close return fs.ErrClosed.
C29_ReadAfterCloseFails ==
    hnd.kind = "file" =>
       \A k \in 1..Len(hnd.calls) :
          LET c == hnd.calls[k]
          IN  ClosedBefore(k) =>
                 /\ c.op = "Read" => c.fault = Nil /\ c.err # Nil /\ c.n = 0
                 /\ hnd.impl = "FileCore" /\ c.op \in {"Read", "WriteTo", "Close"} =>
                       c.fault = Nil /\ c.err = fsErrClosed

ClaimedOrder ==
    <<"superblock", "magic", "blockLog", "decompressor", "idTable", "fragTable",
      "rootInode", "rootFile", "return">>

\* the last step NewSquashfsReader performed
LastStep == steps[Len(steps)]

\* C23: NewSquashfsReader decodes and validates the superblock, selects the
\* decompressor, decodes the id table, reads the fragment super-table,
\* decodes the root inode and then the root directory, in this order, each
\* step after the success of the one before; a failure ends the steps.
C23_StepsInClaimedOrder ==
    /\ IsPrefix(steps, ClaimedOrder)
    /\ ret.returned /\ ~ret.rdr => LastStep # "return"

\* C30: ErrOptions comes only from the final step and with a Reader; when
\* the fragment super-table, the id table, the root inode or the root
\* directory fails after non-default gzip options were parsed, the error is
\* that of the failing step and the Reader is nil.
C30_ErrOptionsOnlyAtTheEnd ==
    /\ ret.err = ErrOptions => ret.rdr /\ LastStep = "return"
    /\ ret.returned /\ rdr.hasOptions /\ LastStep # "return" =>
          /\ ~ret.rdr
          /\ ret.err = ErrUnexpectedEOF
          /\ LastStep = arch.damage

\* gzip options were non-default and a later step failed
C30_LateFailureAfterOptions ==
    /\ ret.returned
    /\ rdr.hasOptions
    /\ arch.damage \in {"fragTable", "idTable", "rootInode", "rootFile"}
    /\ ~ret.rdr
    /\ ret.err = ErrUnexpectedEOF

(***************************************************************************)
(* directory.NewDirectory: claims C24 and C25.                             *)
(***************************************************************************)
\* the entries of the runs r, in on-disk order, as NewDirectory is to
\* return them
RECURSIVE LaidEntries(_)
LaidEntries(l) ==
    IF l = <<>> THEN <<>>
    ELSE [k \in 1..Len(Head(l).entries) |->
             [Name |-> Head(l).entries[k].Name,
              Type |-> Head(l).entries[k].Type,
              InodeBlockOffset |-> Head(l).entries[k].Offset,
              InodeOffset |-> Head(l).InodeOffset]]
         \o LaidEntries(Tail(l))

\* C24: NewDirectory returns a nil error, and entries for all that is laid
\* out, when headers and entries take exactly the declared size and when 1
\* to 11 bytes are left after the last entry.
C24_DeclaredSizeIsNotAnError ==
    dirb.done /\ dirb.trailing \in 0..11 =>
       dirb.err = Nil /\ Len(dirb.entries) = Len(LaidEntries(dirb.laid))

\* C25: NewDirectory returns one entry per on-disk entry, in on-disk order,
\* as many as the headers' counts add up to; each with the name of
\* name-length-field + 1 bytes, the kind and the in-block offset of its entry
\* record, and the inode-table block offset of the header read last.
C25_EntriesAsLaidOut ==
    dirb.done => dirb.entries = LaidEntries(dirb.laid)

(***************************************************************************)
(* The id table: claim C26.                                                *)
(***************************************************************************)
\* C26: once the id table has been decoded without error it holds exactly
\* id_count ids, from ceil(id_count / 2048) blocks in super-table order, 2048
\* from every block but the last, whatever id_count is.
C26_IdTableHoldsIdCount ==
    idt.pc = "done" /\ idt.err = Nil =>
       /\ IdsHeld(idt.idTable) = idt.IDCount
       /\ Len(idt.idTable) = (idt.IDCount + IdsPerBlock - 1) \div IdsPerBlock
       /\ \A k \in 1..Len(idt.idTable) :
             /\ idt.idTable[k].block = k
             /\ k < Len(idt.idTable) => idt.idTable[k].n = IdsPerBlock
             /\ idt.idTable[k].n > 0

\* an id table of more than one block, the last one not full, was decoded
C26_SeveralBlocksDecoded ==
    /\ idt.pc = "done"
    /\ idt.err = Nil
    /\ idt.IDCount > IdsPerBlock
    /\ idt.IDCount % IdsPerBlock > 0
    /\ IdsHeld(idt.idTable) = idt.IDCount

(***************************************************************************)
(* inode.ProcessInode: claim C27.                                          *)
(***************************************************************************)
\* C27: when ProcessInode returns without error, the type tag of the header
\* is one of the 14 known kinds and Info holds the payload of that kind; a
\* header with any other tag yields an error, never an Inode with an empty
\* Info.
C27_InfoMatchesTypeTag ==
    pin.pc = "returned" =>
       /\ pin.err = Nil => pin.Type \in KnownTypes /\ pin.Info = Variant(pin.Type)
       /\ pin.Type \notin KnownTypes => pin.err # Nil

(***************************************************************************)
(* The goroutines of a directory extraction: claim C28.                    *)
(***************************************************************************)
\* C28: every child goroutine sends one result and the parent receives one
\* per child before it returns: when the parent has returned, with or
\* without an error, every child has handed its result over and none is left
\* at its send.
C28_NoChildLeftSending ==
    ext.parent = "returned" =>
       /\ ext.got = Len(ext.children)
       /\ \A c \in 1..Len(ext.children) : ext.g[c] = "done"

====
